---- MODULE Spec2Model ----
(***************************************************************************)
(* HopeTurtle GPS one-shot logger (src/src/gps_snapshot.py) and the        *)
(* last-fix lookup of the OLED status tool (src/src/oled_status.py).       *)
(*                                                                         *)
(* Text is a sequence of one-character strings, so that split, startswith, *)
(* slicing, int() and float() are computed as Python computes them.        *)
(* Python's None and the CSV's empty cell are the empty sequence <<>>; a   *)
(* present value v is <<v>>.  float values are integers in thousandths,    *)
(* coordinates in micro-degrees.                                           *)
(***************************************************************************)
EXTENDS Integers, Sequences, FiniteSets, TLC

\* ------------------------------------------------------------------ bounds
MaxLines == 3        \* longest list of NMEA lines handed to the decoder
MaxStream == 3       \* longest byte stream the receiver sends in one window
MaxTick == 2         \* longest time one poll iteration takes, in clock ticks
READ_WINDOW_S == 3   \* HT_READ_WINDOW_S, in clock ticks
MaxRows == 2         \* most rows in one csv file

\* --------------------------------------------------------- Python text
None == <<>>
Some(v) == <<v>>
Truthy(o) == o # None /\ o[1] # 0

Chars(s) == [i \in 1..Len(s) |-> SubSeq(s, i, i)]

Min(a, b) == IF a < b THEN a ELSE b

\* s[a:b] with 0-based a, b >= 0, clamped to the length as Python clamps it
Slice(s, a, b) ==
    IF a < Min(b, Len(s)) THEN SubSeq(s, a + 1, Min(b, Len(s))) ELSE <<>>

SliceFrom(s, a) == Slice(s, a, Len(s))

StartsWith(s, prefix) ==
    /\ Len(s) >= Len(prefix)
    /\ SubSeq(s, 1, Len(prefix)) = prefix

RECURSIVE Split(_, _)
Split(s, sep) ==
    IF \A i \in 1..Len(s) : s[i] # sep
    THEN <<s>>
    ELSE LET k == CHOOSE i \in 1..Len(s) :
                      s[i] = sep /\ \A j \in 1..(i - 1) : s[j] # sep
         IN  <<SubSeq(s, 1, k - 1)>> \o Split(SubSeq(s, k + 1, Len(s)), sep)

DigitChars == <<"0", "1", "2", "3", "4", "5", "6", "7", "8", "9">>
IsDigit(c) == \E i \in 1..10 : DigitChars[i] = c
DigitVal(c) == (CHOOSE i \in 1..10 : DigitChars[i] = c) - 1

RECURSIVE DigitsVal(_)
DigitsVal(s) ==
    IF Len(s) = 0 THEN 0
    ELSE DigitsVal(SubSeq(s, 1, Len(s) - 1)) * 10 + DigitVal(s[Len(s)])

AllDigits(s) == \A i \in 1..Len(s) : IsDigit(s[i])

HasSign(s) == Len(s) > 0 /\ s[1] \in {"+", "-"}
Unsigned(s) == IF HasSign(s) THEN Tail(s) ELSE s
Signed(s, v) == IF HasSign(s) /\ s[1] = "-" THEN 0 - v ELSE v

\* int(s): an optional sign and one or more digits; anything else raises ValueError
ParseInt(s) ==
    LET u == Unsigned(s)
    IN  IF Len(u) > 0 /\ AllDigits(u)
        THEN [raised |-> FALSE, val |-> Signed(s, DigitsVal(u))]
        ELSE [raised |-> TRUE, val |-> 0]

\* the first three decimals of a fraction, in thousandths
Frac3(f) == DigitsVal(Slice(f \o <<"0", "0", "0">>, 0, 3))

\* float(s): an optional sign, digits, optionally a point and digits, at least
\* one digit in all; anything else raises ValueError.  The value is in thousandths.
ParseFloat(s) ==
    LET u == Unsigned(s)
        parts == Split(u, ".")
        ip == parts[1]
        fp == IF Len(parts) = 2 THEN parts[2] ELSE <<>>
    IN  IF /\ Len(parts) <= 2
           /\ AllDigits(ip) /\ AllDigits(fp)
           /\ Len(ip) + Len(fp) > 0
        THEN [raised |-> FALSE, val |-> Signed(s, DigitsVal(ip) * 1000 + Frac3(fp))]
        ELSE [raised |-> TRUE, val |-> 0]

\* ---------------------------------------------------- (3) helper functions
\* dm_to_deg: ddmm.mmmm / dddmm.mmmm to signed micro-degrees; None for an empty
\* token; int() or float() may raise.
dm_to_deg(dm, hemi) ==
    IF dm = <<>> THEN [raised |-> FALSE, val |-> None]
    ELSE LET lat == hemi \in {<<"N">>, <<"S">>}
             d == ParseInt(IF lat THEN Slice(dm, 0, 2) ELSE Slice(dm, 0, 3))
             m == ParseFloat(IF lat THEN SliceFrom(dm, 2) ELSE SliceFrom(dm, 3))
         IN  IF d.raised \/ m.raised THEN [raised |-> TRUE, val |-> None]
             ELSE LET val == d.val * 1000000 + (m.val * 1000) \div 60
                  IN  [raised |-> FALSE,
                       val |-> Some(IF hemi \in {<<"S">>, <<"W">>} THEN 0 - val ELSE val)]

IsLeap(y) == (y % 4 = 0 /\ y % 100 # 0) \/ y % 400 = 0
DaysIn(y, m) ==
    IF m = 2 THEN (IF IsLeap(y) THEN 29 ELSE 28)
    ELSE IF m \in {4, 6, 9, 11} THEN 30 ELSE 31

\* datetime(year, MM, dd, hh, mm, ss) raises ValueError outside these ranges
ValidDateTime(y, mo, d, h, mi, s) ==
    /\ mo \in 1..12 /\ d >= 1 /\ d <= DaysIn(y, mo)
    /\ h \in 0..23 /\ mi \in 0..59 /\ s \in 0..59

\* parse_rmc_time_date: hhmmss(.sss), ddmmyy to a UTC datetime, None if invalid
parse_rmc_time_date(r_time, r_date) ==
    IF r_time = <<>> \/ r_date = <<>> THEN None
    ELSE LET hh == ParseInt(Slice(r_time, 0, 2))
             mm == ParseInt(Slice(r_time, 2, 4))
             ss == ParseInt(Slice(r_time, 4, 6))
             dd == ParseInt(Slice(r_date, 0, 2))
             MM == ParseInt(Slice(r_date, 2, 4))
             yy == ParseInt(Slice(r_date, 4, 6))
             year == IF yy.val < 80 THEN 2000 + yy.val ELSE 1900 + yy.val
         IN  IF \/ hh.raised \/ mm.raised \/ ss.raised
                \/ dd.raised \/ MM.raised \/ yy.raised
                \/ ~ValidDateTime(year, MM.val, dd.val, hh.val, mm.val, ss.val)
             THEN None
             ELSE Some([year |-> year, month |-> MM.val, day |-> dd.val,
                        hour |-> hh.val, minute |-> mm.val, second |-> ss.val])

\* strftime("%Y-%m-%dT%H:%M:%SZ"): the six printed fields, in their printed order
strftime(dt) == <<dt.year, dt.month, dt.day, dt.hour, dt.minute, dt.second>>

\* ------------------------------------------------------------------ state
VARIABLES
    pc,            \* where the process is
    MODE,          \* HT_GPS_MODE: "soft" or "hard"
    host_year,     \* datetime.now(timezone.utc).year of the host clock
    stream,        \* the bytes the receiver sends during the window
    pos,           \* how many of them the transport has handed over
    now,           \* time.time(), in clock ticks
    t0,            \* start of the read window
    buf,           \* read_nmea_lines_soft: bytes after the last newline
    lines,         \* the reader's list of lines
    err,           \* the reader's error reason, None if none
    fault,         \* the failure the environment raised, "none" if none
    exc,           \* the exception in flight, "" if none
    pi_created,    \* pigpio.pi() was constructed
    pi_connected,  \* pi.connected
    pi_stopped,    \* pi.stop() was called
    bb_open,       \* the bit-banged receive channel is open
    bb_closed,     \* pi.bb_serial_read_close() was called
    ser_open,      \* the serial.Serial port is open
    nmea_lines,    \* parse_nmea_to_row's argument
    idx,           \* index of the line the for loop is at
    loc,           \* parse_nmea_to_row's local variables
    row,           \* the record parse_nmea_to_row returned, <<>> before
    decoded,       \* parse_nmea_to_row was called
    csv,           \* the rows main wrote with write_row
    files,         \* the *_gps.csv files as glob lists them: mtime and rows
    order,         \* _find_last_fix_from_csvs: files sorted by mtime, newest first
    fi,            \* index into order of the file being read
    ri,            \* index of the row being looked at, counted from the last
    skipped,       \* the files that could not be opened or read
    found          \* what _find_last_fix_from_csvs returned, <<>> for no result

ioVars == <<MODE, stream, pos, now, t0, buf, lines, err, fault,
            pi_created, pi_connected, pi_stopped, bb_open, bb_closed, ser_open>>
parseVars == <<nmea_lines, idx, loc, row, decoded>>
csvVars == <<files, order, fi, ri, skipped, found>>
vars == <<pc, host_year, exc, csv, ioVars, parseVars, csvVars>>

\* ------------------------------------------------ (5) parse NMEA, build row
\* lines 166-172
LocInit ==
    [lat |-> None, lon |-> None, alt |-> None, hdop |-> None,
     sats |-> None, fixq |-> None, speed_kmh |-> None, course_deg |-> None,
     r_date |-> <<>>, r_time |-> <<>>, gps_dt |-> None,
     had_nmea |-> FALSE, fix_status |-> "no_fix"]

\* lines 179 and 191: the sentence tags
RmcTags == {Chars("$GPRMC"), Chars("$GNRMC")}
GgaTags == {Chars("$GPGGA"), Chars("$GNGGA")}

IsRMC(line) == \E tag \in RmcTags : StartsWith(line, tag)
IsGGA(line) == \E tag \in GgaTags : StartsWith(line, tag)

\* float(tok) if tok else None
FloatOrNone(tok) ==
    IF tok = <<>> THEN [raised |-> FALSE, val |-> None]
    ELSE LET f == ParseFloat(tok)
         IN  [raised |-> f.raised, val |-> IF f.raised THEN None ELSE Some(f.val)]

\* lines 179-189: the RMC branch.  p is 1-based here, p[k + 1] is Python's p[k].
DecodeRMC(l, p) ==
    IF Len(p) < 10 THEN [raised |-> FALSE, loc |-> l]
    ELSE LET l1 == [l EXCEPT !.r_time = p[2], !.r_date = p[10],
                             !.gps_dt = parse_rmc_time_date(p[2], p[10])]
             la == dm_to_deg(p[4], p[5])
             lo == dm_to_deg(p[6], p[7])
             sp == FloatOrNone(p[8])
             co == FloatOrNone(p[9])
         IN  IF p[3] # <<"A">> THEN [raised |-> FALSE, loc |-> l1]
             ELSE IF la.raised \/ lo.raised \/ sp.raised \/ co.raised
             THEN [raised |-> TRUE, loc |-> l]
             ELSE [raised |-> FALSE,
                   loc |-> [l1 EXCEPT
                       !.lat = la.val,
                       !.lon = lo.val,
                       !.speed_kmh = IF sp.val = None THEN None
                                     ELSE Some(sp.val[1] * 1852),
                       !.course_deg = co.val,
                       !.fix_status = "fix"]]

\* lines 191-203: the GGA branch; int() is guarded by try/except, float() is not
DecodeGGA(l, p) ==
    IF Len(p) < 10 THEN [raised |-> FALSE, loc |-> l]
    ELSE LET fq == ParseInt(p[7])
             sa == ParseInt(p[8])
             hd == FloatOrNone(p[9])
             al == FloatOrNone(p[10])
         IN  IF hd.raised \/ al.raised THEN [raised |-> TRUE, loc |-> l]
             ELSE [raised |-> FALSE,
                   loc |-> [l EXCEPT
                       !.fixq = IF p[7] = <<>> \/ fq.raised THEN Some(0) ELSE Some(fq.val),
                       !.sats = IF p[8] = <<>> \/ sa.raised THEN None ELSE Some(sa.val),
                       !.hdop = hd.val,
                       !.alt = al.val]]

\* lines 175-203: what one iteration of the for loop does to the locals
DecodeLine(l, line) ==
    IF ~StartsWith(line, <<"$">>) THEN [raised |-> FALSE, loc |-> l]
    ELSE LET l1 == [l EXCEPT !.had_nmea = TRUE]
         IN  IF IsRMC(line) THEN DecodeRMC(l1, Split(line, ","))
             ELSE IF IsGGA(line) THEN DecodeGGA(l1, Split(line, ","))
             ELSE [raised |-> FALSE, loc |-> l1]

\* the loop without its break
BreaksAfterNever(l) == FALSE

\* lines 205-206: the loop breaks after a line that left fix_status = "fix"
BreaksAfter(l) == l.fix_status = "fix"

\* safe_now_utc_str (lines 79-80): the host clock, printed
safe_now_utc_str == strftime([year |-> host_year, month |-> 1, day |-> 1,
                              hour |-> 0, minute |-> 0, second |-> 0])

HostYearFloor == 2020

\* round(x, 3) of a value in millionths, in thousandths
Round3(x) == (x + 500) \div 1000

\* x or "" (lines 221-227)
OrEmpty(o) == IF Truthy(o) THEN o ELSE None

\* lines 208-217: timestamp selection
SelectTimestamp(l) ==
    IF l.gps_dt # None /\ l.fix_status = "fix"
    THEN [ts |-> strftime(l.gps_dt[1]), status |-> "fix"]
    ELSE IF host_year > HostYearFloor
    THEN [ts |-> safe_now_utc_str,
          status |-> IF l.had_nmea THEN "system_time_no_fix" ELSE "system_time_no_nmea"]
    ELSE [ts |-> <<>>, status |-> "no_time"]

\* lines 219-233
BuildRow(l) ==
    LET t == SelectTimestamp(l)
    IN  [timestamp_utc |-> t.ts,
         lat |-> OrEmpty(l.lat),
         lon |-> OrEmpty(l.lon),
         alt_m |-> OrEmpty(l.alt),
         sats |-> OrEmpty(l.sats),
         hdop |-> OrEmpty(l.hdop),
         speed_kmh |-> IF Truthy(l.speed_kmh) THEN Some(Round3(l.speed_kmh[1])) ELSE None,
         course_deg |-> OrEmpty(l.course_deg),
         fix_quality |-> IF Truthy(l.fixq) THEN l.fixq[1] ELSE 0,
         raw_date_utc |-> l.r_date,
         raw_time_utc |-> l.r_time,
         status |-> t.status]

\* One iteration of "for line in nmea_lines" (lines 174-206).  A ValueError from
\* an unguarded int()/float() leaves parse_nmea_to_row, and main, unhandled.
ParseLine ==
    /\ pc = "parse_loop"
    /\ idx <= Len(nmea_lines)
    /\ LET r == DecodeLine(loc, nmea_lines[idx])
       IN  IF r.raised
           THEN /\ pc' = "crashed"
                /\ exc' = "ValueError"
                /\ UNCHANGED <<loc, idx>>
           ELSE /\ loc' = r.loc
                /\ exc' = exc
                /\ IF BreaksAfter(r.loc)
                   THEN pc' = "parse_ts" /\ idx' = idx
                   ELSE pc' = "parse_loop" /\ idx' = idx + 1
    /\ UNCHANGED <<host_year, csv, ioVars, nmea_lines, row, decoded, csvVars>>

\* The for loop ran out of lines.
ParseExhausted ==
    /\ pc = "parse_loop"
    /\ idx > Len(nmea_lines)
    /\ pc' = "parse_ts"
    /\ UNCHANGED <<host_year, exc, csv, ioVars, parseVars, csvVars>>

\* lines 208-233: timestamp selection, the row, return to main
ParseFinish ==
    /\ pc = "parse_ts"
    /\ row' = <<BuildRow(loc)>>
    /\ pc' = "main_write"
    /\ UNCHANGED <<host_year, exc, csv, ioVars, nmea_lines, idx, loc, decoded, csvVars>>

\* main, lines 278-297: write the row, return 0
MainWrite ==
    /\ pc = "main_write"
    /\ csv' = Append(csv, row[1])
    /\ pc' = "done"
    /\ UNCHANGED <<host_year, exc, ioVars, parseVars, csvVars>>

\* ------------------------------------------------------ (4) GPS read
\* the bytes a receiver can send: sentence start, payload, CR, LF, a non-ASCII byte
NonAscii == "<FF>"
Bytes == {"$", "x", "\r", "\n", NonAscii}
Whitespace == {" ", "\t", "\r", "\n"}

IsAscii(c) == c # NonAscii

\* raw.decode("ascii", errors="ignore")
DecodeAscii(raw) == SelectSeq(raw, IsAscii)

RECURSIVE LStrip(_)
LStrip(s) == IF Len(s) > 0 /\ s[1] \in Whitespace THEN LStrip(Tail(s)) ELSE s

RECURSIVE RStrip(_)
RStrip(s) ==
    IF Len(s) > 0 /\ s[Len(s)] \in Whitespace
    THEN RStrip(SubSeq(s, 1, Len(s) - 1)) ELSE s

\* str.strip()
Strip(s) == RStrip(LStrip(s))

\* lines 116-119: decode and strip each complete raw line, keep the non-empty ones
RECURSIVE KeepLines(_)
KeepLines(raws) ==
    IF Len(raws) = 0 THEN <<>>
    ELSE LET line == Strip(DecodeAscii(raws[1]))
         IN  (IF line # <<>> THEN <<line>> ELSE <<>>) \o KeepLines(Tail(raws))

\* the next n bytes the transport hands over
Chunk(n) == SubSeq(stream, pos + 1, pos + n)

\* main, lines 240-252: pick the reader by MODE
MainStart ==
    /\ pc = "main"
    /\ pc' = IF MODE = "soft" THEN "soft_import" ELSE "hard_import"
    /\ UNCHANGED <<host_year, exc, csv, ioVars, parseVars, csvVars>>

\* read_nmea_lines_soft, lines 90-94: import pigpio
SoftImport ==
    /\ pc = "soft_import"
    /\ \/ /\ pc' = "soft_connect"
          /\ UNCHANGED <<err, fault>>
       \/ /\ err' = Some("error_soft_serial:missing_pigpio")
          /\ fault' = "missing_lib"
          /\ pc' = "main_check"
    /\ UNCHANGED <<host_year, exc, csv, MODE, stream, pos, now, t0, buf, lines,
                   pi_created, pi_connected, pi_stopped, bb_open, bb_closed,
                   ser_open, parseVars, csvVars>>

\* lines 96-98: pigpio.pi(); an unreachable daemon returns without pi.stop()
SoftConnect ==
    /\ pc = "soft_connect"
    /\ pi_created' = TRUE
    /\ \/ /\ pi_connected' = TRUE
          /\ pc' = "soft_open"
          /\ UNCHANGED <<err, fault>>
       \/ /\ pi_connected' = FALSE
          /\ err' = Some("error_soft_serial:pigpiod_not_connected")
          /\ fault' = "not_connected"
          /\ pc' = "main_check"
    /\ UNCHANGED <<host_year, exc, csv, MODE, stream, pos, now, t0, buf, lines,
                   pi_stopped, bb_open, bb_closed, ser_open, parseVars, csvVars>>

\* lines 101-109: set_mode and bb_serial_read_open; on failure pi.stop() and return
SoftOpen ==
    /\ pc = "soft_open"
    /\ \/ /\ bb_open' = TRUE
          /\ t0' = now
          /\ buf' = <<>>
          /\ pc' = "soft_loop"
          /\ UNCHANGED <<err, fault, pi_stopped>>
       \/ /\ pi_stopped' = TRUE
          /\ err' = Some("error_soft_serial:open_failed")
          /\ fault' = "open_failed"
          /\ pc' = "main_check"
          /\ UNCHANGED <<bb_open, t0, buf>>
    /\ UNCHANGED <<host_year, exc, csv, MODE, stream, pos, now, lines,
                   pi_created, pi_connected, bb_closed, ser_open, parseVars, csvVars>>

\* lines 111-121: one iteration of the poll loop.  bb_serial_read hands over any
\* number of the pending bytes, or raises; nothing in the loop catches that.
SoftPoll ==
    /\ pc = "soft_loop"
    /\ now - t0 < READ_WINDOW_S
    /\ \E d \in 1..MaxTick : now' = now + d
    /\ \/ \E n \in 0..(Len(stream) - pos) :
            /\ pos' = pos + n
            /\ IF n > 0
               THEN LET parts == Split(buf \o Chunk(n), "\n")
                    IN  /\ buf' = parts[Len(parts)]
                        /\ lines' = lines \o KeepLines(SubSeq(parts, 1, Len(parts) - 1))
               ELSE UNCHANGED <<buf, lines>>
            /\ UNCHANGED <<pc, exc, fault>>
       \/ /\ exc' = "pigpio.error"
          /\ fault' = "poll_raised"
          /\ pc' = "soft_finally"
          /\ UNCHANGED <<pos, buf, lines>>
    /\ UNCHANGED <<host_year, csv, MODE, stream, t0, err, pi_created, pi_connected,
                   pi_stopped, bb_open, bb_closed, ser_open, parseVars, csvVars>>

\* line 111: the window has elapsed
SoftExpire ==
    /\ pc = "soft_loop"
    /\ ~(now - t0 < READ_WINDOW_S)
    /\ pc' = "soft_finally"
    /\ UNCHANGED <<host_year, exc, csv, ioVars, parseVars, csvVars>>

\* the exit without the finally block: nothing is closed or stopped
SoftFinallyMissing ==
    /\ pc = "soft_finally"
    /\ pc' = IF exc # "" THEN "crashed" ELSE "main_check"
    /\ UNCHANGED <<host_year, exc, csv, ioVars, parseVars, csvVars>>

\* lines 122-129: finally: bb_serial_read_close (an error it raises is swallowed
\* and the channel may then still be open), pi.stop(); then the pending exception
\* leaves the function, or (lines, None) is returned.
SoftFinally ==
    /\ pc = "soft_finally"
    /\ bb_closed' = TRUE
    /\ \E closeRaised \in BOOLEAN : bb_open' = closeRaised
    /\ pi_stopped' = TRUE
    /\ pc' = IF exc # "" THEN "crashed" ELSE "main_check"
    /\ UNCHANGED <<host_year, exc, csv, MODE, stream, pos, now, t0, buf, lines, err,
                   fault, pi_created, pi_connected, ser_open, parseVars, csvVars>>

\* read_nmea_lines_hard, lines 132-136: import serial
HardImport ==
    /\ pc = "hard_import"
    /\ \/ /\ pc' = "hard_open"
          /\ UNCHANGED <<err, fault>>
       \/ /\ err' = Some("error_hard_serial:missing_pyserial")
          /\ fault' = "missing_lib"
          /\ pc' = "main_check"
    /\ UNCHANGED <<host_year, exc, csv, MODE, stream, pos, now, t0, buf, lines,
                   pi_created, pi_connected, pi_stopped, bb_open, bb_closed,
                   ser_open, parseVars, csvVars>>

\* lines 138-143: serial.Serial(port, baud, timeout=1)
HardOpen ==
    /\ pc = "hard_open"
    /\ \/ /\ ser_open' = TRUE
          /\ t0' = now
          /\ pc' = "hard_loop"
          /\ UNCHANGED <<err, fault>>
       \/ /\ err' = Some("error_open_serial")
          /\ fault' = "open_failed"
          /\ pc' = "main_check"
          /\ UNCHANGED <<ser_open, t0>>
    /\ UNCHANGED <<host_year, exc, csv, MODE, stream, pos, now, buf, lines,
                   pi_created, pi_connected, pi_stopped, bb_open, bb_closed,
                   parseVars, csvVars>>

\* what ser.readline() can return with n bytes pending: the bytes up to and
\* including the first newline, or, when the per-read timeout (timeout=1) ends
\* the read first, the bytes received so far, which hold no newline
ReadlineCan(n) == \A i \in 1..(n - 1) : Chunk(n)[i] # "\n"

\* lines 145-154: one iteration of the poll loop; a read error closes the port
\* and returns the lines so far with the error reason
HardPoll ==
    /\ pc = "hard_loop"
    /\ now - t0 < READ_WINDOW_S
    /\ \E d \in 1..MaxTick : now' = now + d
    /\ \/ \E n \in 0..(Len(stream) - pos) :
            /\ ReadlineCan(n)
            /\ pos' = pos + n
            /\ LET line == Strip(DecodeAscii(Chunk(n)))
               IN  lines' = IF line # <<>> THEN Append(lines, line) ELSE lines
            /\ UNCHANGED <<pc, err, fault, ser_open>>
       \/ /\ ser_open' = FALSE
          /\ err' = Some("error_read_serial")
          /\ fault' = "read_raised"
          /\ pc' = "main_check"
          /\ UNCHANGED <<pos, lines>>
    /\ UNCHANGED <<host_year, exc, csv, MODE, stream, t0, buf, pi_created,
                   pi_connected, pi_stopped, bb_open, bb_closed, parseVars, csvVars>>

\* lines 145, 155-158: the window has elapsed; ser.close(), return (lines, None)
HardExpire ==
    /\ pc = "hard_loop"
    /\ ~(now - t0 < READ_WINDOW_S)
    /\ ser_open' = FALSE
    /\ pc' = "main_check"
    /\ UNCHANGED <<host_year, exc, csv, MODE, stream, pos, now, t0, buf, lines, err,
                   fault, pi_created, pi_connected, pi_stopped, bb_open, bb_closed,
                   parseVars, csvVars>>

\* ------------------------------------------------------------- (6) main
PositionalFields ==
    {"lat", "lon", "alt_m", "sats", "hdop", "speed_kmh", "course_deg"}

\* lines 256-258: every field "", then the timestamp, fix_quality 0 and the reason
ErrorRow(reason) ==
    [timestamp_utc |-> safe_now_utc_str,
     lat |-> None, lon |-> None, alt_m |-> None, sats |-> None, hdop |-> None,
     speed_kmh |-> None, course_deg |-> None,
     fix_quality |-> 0, raw_date_utc |-> <<>>, raw_time_utc |-> <<>>,
     status |-> reason]

\* lines 255-272: the reader reported an error: write the breadcrumb row, return 0
MainErrorRow ==
    /\ pc = "main_check"
    /\ err # None
    /\ csv' = Append(csv, ErrorRow(err[1]))
    /\ pc' = "done"
    /\ UNCHANGED <<host_year, exc, ioVars, parseVars, csvVars>>

\* line 275 and lines 166-172: call parse_nmea_to_row(nmea_lines)
MainParse ==
    /\ pc = "main_check"
    /\ err = None
    /\ nmea_lines' = lines
    /\ decoded' = TRUE
    /\ idx' = 1
    /\ loc' = LocInit
    /\ pc' = "parse_loop"
    /\ UNCHANGED <<host_year, exc, csv, ioVars, row, csvVars>>

\* ------------------------------------ oled_status: the last fix on disk
UpperChars == Chars("ABCDEFGHIJKLMNOPQRSTUVWXYZ")
LowerChars == Chars("abcdefghijklmnopqrstuvwxyz")

\* the lower-case letter of each capital
LowerOf ==
    [c \in {UpperChars[i] : i \in 1..26} |->
        LowerChars[CHOOSE i \in 1..26 : UpperChars[i] = c]]

LowerChar(c) == IF c \in DOMAIN LowerOf THEN LowerOf[c] ELSE c

\* str.lower()
Lower(s) == [i \in 1..Len(s) |-> LowerChar(s[i])]

\* the file indices, as glob lists them
GlobList(fs) ==
    LET S == DOMAIN fs
        Rank(i) == Cardinality({j \in S : j < i})
    IN  [k \in 1..Cardinality(S) |-> CHOOSE i \in S : Rank(i) = k - 1]

\* the sort without reverse=True: oldest first
SortedByMtimeOldestFirst(fs, lst) ==
    LET Before(j, i) ==
            \/ fs[lst[j]].mtime < fs[lst[i]].mtime
            \/ fs[lst[j]].mtime = fs[lst[i]].mtime /\ j < i
        Place(i) == Cardinality({j \in 1..Len(lst) : Before(j, i)}) + 1
    IN  [k \in 1..Len(lst) |-> lst[CHOOSE i \in 1..Len(lst) : Place(i) = k]]

\* line 149: sorted(..., key=os.path.getmtime, reverse=True): newest first, files
\* of equal mtime in the order of the list
SortedByMtime(fs, lst) ==
    LET Before(j, i) ==
            \/ fs[lst[j]].mtime > fs[lst[i]].mtime
            \/ fs[lst[j]].mtime = fs[lst[i]].mtime /\ j < i
        Place(i) == Cardinality({j \in 1..Len(lst) : Before(j, i)}) + 1
    IN  [k \in 1..Len(lst) |-> lst[CHOOSE i \in 1..Len(lst) : Place(i) = k]]

StatusFix == Chars("fix")

\* line 158: the row is taken as a fix
RowIsFix(r) == Lower(r.status) = StatusFix /\ r.lat # <<>> /\ r.lon # <<>>

\* line 160: float(lat), float(lon) both convert
RowConverts(r) == ~ParseFloat(r.lat).raised /\ ~ParseFloat(r.lon).raised

\* line 160: the tuple returned for row r of file f
FixResult(f, r) ==
    [fp |-> f, ts |-> r.timestamp_utc,
     lat |-> ParseFloat(r.lat).val, lon |-> ParseFloat(r.lon).val,
     sats |-> IF r.sats # <<>> THEN r.sats ELSE <<"?">>]

\* line 149: list and sort the files
LookupStart ==
    /\ pc = "csv_start"
    /\ order' = SortedByMtime(files, GlobList(files))
    /\ fi' = 1
    /\ pc' = "csv_file"
    /\ UNCHANGED <<host_year, exc, csv, ioVars, parseVars, files, ri, skipped, found>>

\* lines 150-153 and 161-164: open the next file and read its rows; a file that
\* cannot be read is reported and skipped; after the last file, no result
LookupOpenFile ==
    /\ pc = "csv_file"
    /\ IF fi > Len(order)
       THEN /\ found' = <<>>
            /\ pc' = "csv_done"
            /\ UNCHANGED <<fi, ri, skipped>>
       ELSE \/ /\ ri' = Len(files[order[fi]].rows)
               /\ pc' = "csv_row"
               /\ UNCHANGED <<fi, skipped, found>>
            \/ /\ skipped' = skipped \cup {order[fi]}
               /\ fi' = fi + 1
               /\ pc' = "csv_file"
               /\ UNCHANGED <<ri, found>>
    /\ UNCHANGED <<host_year, exc, csv, ioVars, parseVars, files, order>>

\* lines 154-163: one iteration over reversed(rows); a fix row whose lat or lon
\* does not convert raises ValueError, which skips the rest of the file
LookupRow ==
    /\ pc = "csv_row"
    /\ IF ri = 0
       THEN /\ fi' = fi + 1
            /\ pc' = "csv_file"
            /\ UNCHANGED <<ri, skipped, found>>
       ELSE LET r == files[order[fi]].rows[ri]
            IN  IF ~RowIsFix(r)
                THEN /\ ri' = ri - 1
                     /\ UNCHANGED <<pc, fi, skipped, found>>
                ELSE IF RowConverts(r)
                THEN /\ found' = <<FixResult(order[fi], r)>>
                     /\ pc' = "csv_done"
                     /\ UNCHANGED <<fi, ri, skipped>>
                ELSE /\ fi' = fi + 1
                     /\ pc' = "csv_file"
                     /\ UNCHANGED <<ri, skipped, found>>
    /\ UNCHANGED <<host_year, exc, csv, ioVars, parseVars, files, order>>

\* the rows found in the data directory: fixes as gps_snapshot writes them, a
\* status in capitals, a fix without longitude, a latitude that is no number,
\* and a row without fix
CsvRow(status, lat, lon, sats, ts) ==
    [status |-> Chars(status), lat |-> Chars(lat), lon |-> Chars(lon),
     sats |-> Chars(sats), timestamp_utc |-> ts]

RowFix == CsvRow("fix", "48.1173", "11.516", "8", "t1")
RowFixUpper == CsvRow("FIX", "-37.387", "-122.036", "", "t2")
RowFixNoLon == CsvRow("fix", "48.1173", "", "5", "t3")
RowFixBadLat == CsvRow("fix", "n/a", "11.516", "7", "t4")
RowNoFix == CsvRow("system_time_no_fix", "", "", "", "t5")

CsvRows == {RowFix, RowFixUpper, RowFixNoLon, RowFixBadLat, RowNoFix}

\* the day files the data directory can hold, in the order glob lists them; a
\* file is known by its place in this list, and no two were last written at the
\* same time
DayNames == <<"2026-11-01_gps.csv", "2026-11-02_gps.csv">>
DayFiles == DOMAIN DayNames
Mtimes == DayFiles

\* ------------------------------------------------------- decoder inputs
\* The sentences the decoder is fed: the spec's example pair, a second pair, and
\* the shapes receivers really send before and around a fix.
RmcExample == Chars("$GPRMC,123519,A,4807.038,N,01131.000,E,022.4,084.4,230394,003.1,W*6A")
GgaExample == Chars("$GPGGA,123519,4807.038,N,01131.000,E,1,08,0.9,545.4,M,46.9,M,,*47")
RmcSecond == Chars("$GNRMC,123530,A,3723.247,S,12202.166,W,000.5,054.7,191194,,")
GgaSecond == Chars("$GNGGA,123530,3723.247,S,12202.166,W,2,05,1.5,100.0,M,,M,,")
RmcVoid == Chars("$GPRMC,123520,V,,,,,,,230394,,,N*53")
RmcNoLat == Chars("$GNRMC,123521,A,,N,01131.000,E,,,230394,,")
RmcZeroLat == Chars("$GPRMC,123522,A,0000.000,N,01131.000,E,0.0,,230394,,")
RmcNoDate == Chars("$GPRMC,123523,A,4807.038,N,01131.000,E,022.4,084.4,,,")
RmcBadSpeed == Chars("$GPRMC,123519,A,4807.038,N,01131.000,E,x,084.4,230394,,")
RmcBadLat == Chars("$GPRMC,123519,A,48x7.038,N,01131.000,E,022.4,084.4,230394,,")
GgaBadHdop == Chars("$GPGGA,123519,4807.038,N,01131.000,E,x,y,z,545.4,M")
RmcShort == Chars("$GPRMC,123519,A,4807.038,N")
NoDollar == Chars("GPRMC,123519,A,4807.038,N,01131.000,E,022.4,084.4,230394,,")

Sentences ==
    {RmcExample, GgaExample, RmcSecond, GgaSecond, RmcVoid, RmcNoLat,
     RmcZeroLat, RmcNoDate, RmcBadSpeed, RmcBadLat, GgaBadHdop, RmcShort,
     NoDollar}

SeqsUpTo(S, n) == UNION {[1..k -> S] : k \in 0..n}

HostYears == {HostYearFloor, HostYearFloor + 6}

\* ---------------------------------------------------------------- Init
IoIdle ==
    /\ MODE = "soft" /\ stream = <<>> /\ pos = 0 /\ now = 0 /\ t0 = 0
    /\ buf = <<>> /\ lines = <<>> /\ err = None /\ fault = "none"
    /\ pi_created = FALSE /\ pi_connected = FALSE /\ pi_stopped = FALSE
    /\ bb_open = FALSE /\ bb_closed = FALSE /\ ser_open = FALSE

ParseIdle ==
    /\ nmea_lines = <<>> /\ idx = 1 /\ loc = LocInit /\ row = <<>> /\ decoded = FALSE

CsvIdle ==
    /\ files = <<>> /\ order = <<>> /\ fi = 1 /\ ri = 0
    /\ skipped = {} /\ found = <<>>

\* parse_nmea_to_row called on a list of sentences (main, line 275)
InitParse ==
    /\ pc = "parse_loop"
    /\ host_year \in HostYears
    /\ exc = "" /\ csv = <<>>
    /\ IoIdle
    /\ nmea_lines \in SeqsUpTo(Sentences, MaxLines)
    /\ idx = 1 /\ loc = LocInit /\ row = <<>> /\ decoded = TRUE
    /\ CsvIdle

NextParse == ParseLine \/ ParseExhausted \/ ParseFinish \/ MainWrite

SpecParse == InitParse /\ [][NextParse]_vars

\* main() on a byte stream the receiver sends during the window
Init ==
    /\ pc = "main"
    /\ host_year \in HostYears
    /\ exc = "" /\ csv = <<>>
    /\ MODE \in {"soft", "hard"}
    /\ stream \in SeqsUpTo(Bytes, MaxStream)
    /\ pos = 0 /\ now = 0 /\ t0 = 0
    /\ buf = <<>> /\ lines = <<>> /\ err = None /\ fault = "none"
    /\ pi_created = FALSE /\ pi_connected = FALSE /\ pi_stopped = FALSE
    /\ bb_open = FALSE /\ bb_closed = FALSE /\ ser_open = FALSE
    /\ ParseIdle
    /\ CsvIdle

Next ==
    \/ MainStart
    \/ SoftImport \/ SoftConnect \/ SoftOpen \/ SoftPoll \/ SoftExpire \/ SoftFinally
    \/ HardImport \/ HardOpen \/ HardPoll \/ HardExpire
    \/ MainErrorRow \/ MainParse
    \/ ParseLine \/ ParseExhausted \/ ParseFinish \/ MainWrite

Spec == Init /\ [][Next]_vars

\* the steps of a reader whose channel is open: another iteration of the while
\* loop, the loop's exit, the finally block
ReaderStep == SoftPoll \/ SoftExpire \/ SoftFinally \/ HardPoll \/ HardExpire

\* main() as above; the process is single-threaded and nothing in the poll loop
\* blocks for longer than a bounded time (bb_serial_read does not block,
\* readline has timeout=1, sleep(0.02)), so a reader that can step does step
SpecWindow == Init /\ [][Next]_vars /\ WF_vars(ReaderStep)

\* _find_last_fix_from_csvs called on a data directory
InitCsv ==
    /\ pc = "csv_start"
    /\ host_year = HostYearFloor + 6
    /\ exc = "" /\ csv = <<>>
    /\ IoIdle
    /\ ParseIdle
    /\ files \in UNION {[S -> [mtime : Mtimes, rows : SeqsUpTo(CsvRows, MaxRows)]] :
                          S \in SUBSET DayFiles}
    /\ \A a, b \in DOMAIN files : a # b => files[a].mtime # files[b].mtime
    /\ order = <<>> /\ fi = 1 /\ ri = 0 /\ skipped = {} /\ found = <<>>

NextCsv == LookupStart \/ LookupOpenFile \/ LookupRow

SpecCsv == InitCsv /\ [][NextCsv]_vars

\* ------------------------------------------------- claims on the decoder
Returned == pc \in {"main_write", "done"} /\ row # <<>>
Crashed == pc = "crashed"
Ended == Returned \/ Crashed

Fields(line) == Split(line, ",")

\* an RMC sentence the decoder takes as an active fix: 10 fields, validity "A"
IsValidRmc(line) ==
    IsRMC(line) /\ Len(Fields(line)) >= 10 /\ Fields(line)[3] = <<"A">>

RmcLat(line) == dm_to_deg(Fields(line)[4], Fields(line)[5])
RmcLon(line) == dm_to_deg(Fields(line)[6], Fields(line)[7])

\* validity "A", a position that converts, a date and time that compose
WellFormedRmc(line) ==
    /\ IsValidRmc(line)
    /\ ~RmcLat(line).raised /\ RmcLat(line).val # None
    /\ ~RmcLon(line).raised /\ RmcLon(line).val # None
    /\ parse_rmc_time_date(Fields(line)[2], Fields(line)[10]) # None

\* its speed and course tokens are empty or numeric
NumericMotion(line) ==
    ~FloatOrNone(Fields(line)[8]).raised /\ ~FloatOrNone(Fields(line)[9]).raised

IsLongGga(line) == IsGGA(line) /\ Len(Fields(line)) >= 10

SeenDollar == \E i \in 1..Len(nmea_lines) : StartsWith(nmea_lines[i], <<"$">>)

\* C1: the record parse_nmea_to_row returns has latitude and longitude both
\* present or both absent, for every list of input lines.
C1_Pairing ==
    row # <<>> => ((row[1].lat = None) <=> (row[1].lon = None))

\* C2 as claimed: an RMC with validity "A", well-formed position and date/time,
\* followed by a GGA of at least 10 fields, gives status "fix", the RMC's
\* position, and the satellite count, HDOP and altitude of that GGA.
C2_RmcThenGga ==
    (/\ Ended
     /\ Len(nmea_lines) = 2
     /\ WellFormedRmc(nmea_lines[1]) /\ NumericMotion(nmea_lines[1])
     /\ IsLongGga(nmea_lines[2])
     /\ ~DecodeGGA(LocInit, Fields(nmea_lines[2])).raised)
    => /\ Returned
       /\ row[1].status = "fix"
       /\ row[1].lat = OrEmpty(RmcLat(nmea_lines[1]).val)
       /\ row[1].lon = OrEmpty(RmcLon(nmea_lines[1]).val)
       /\ LET g == DecodeGGA(LocInit, Fields(nmea_lines[2])).loc
          IN  /\ row[1].sats = OrEmpty(g.sats)
              /\ row[1].hdop = OrEmpty(g.hdop)
              /\ row[1].alt_m = OrEmpty(g.alt)
              /\ (nmea_lines[2] = GgaExample =>
                    /\ row[1].sats = <<8>>
                    /\ row[1].hdop = <<900>>
                    /\ row[1].alt_m = <<545400>>)

\* C2 amended: for an RMC with validity "A", well-formed position and date/time
\* and empty or numeric speed and course, followed by a GGA of at least 10
\* fields, the decoder stops at the RMC: it returns status "fix" and the RMC's
\* position (a coordinate of exactly zero is recorded as absent), and satellite
\* count, HDOP and altitude are absent and fix_quality is 0, because the GGA
\* that follows is never decoded.
C2_RmcThenGgaStopsAtRmc ==
    (/\ Ended
     /\ Len(nmea_lines) = 2
     /\ WellFormedRmc(nmea_lines[1]) /\ NumericMotion(nmea_lines[1])
     /\ IsLongGga(nmea_lines[2]))
    => /\ Returned
       /\ row[1].status = "fix"
       /\ row[1].lat = OrEmpty(RmcLat(nmea_lines[1]).val)
       /\ row[1].lon = OrEmpty(RmcLon(nmea_lines[1]).val)
       /\ (nmea_lines[1] = RmcExample =>
             row[1].lat = <<48117300>> /\ row[1].lon = <<11516666>>)
       /\ row[1].sats = None /\ row[1].hdop = None /\ row[1].alt_m = None
       /\ row[1].fix_quality = 0

\* C2 witness: the spec's example pair was decoded and the record returned
C2_Witness ==
    /\ nmea_lines = <<RmcExample, GgaExample>>
    /\ pc = "done"
    /\ csv = <<row[1]>>
    /\ row[1].status = "fix"

\* C3: status "fix" only with a timestamp composed from the RMC date/time and
\* both coordinates present; status "system_time_no_fix" only with the host
\* clock's timestamp, at least one NMEA line seen, and no position in the record.
C3_StatusMeaning ==
    row # <<>> =>
        /\ (row[1].status = "fix" =>
              /\ loc.gps_dt # None
              /\ row[1].timestamp_utc = strftime(loc.gps_dt[1])
              /\ row[1].lat # None /\ row[1].lon # None)
        /\ (row[1].status = "system_time_no_fix" =>
              /\ row[1].timestamp_utc = safe_now_utc_str
              /\ SeenDollar
              /\ row[1].lat = None /\ row[1].lon = None)

\* C6: for every list of input lines parse_nmea_to_row completes and returns a
\* record; no error escapes the decoder.
C6_DecoderNeverRaises ==
    decoded => ~(Crashed /\ exc = "ValueError")

\* C7: with a plausible host clock, no line beginning with "$" gives status
\* "system_time_no_nmea"; a line beginning with "$" and no RMC with validity "A"
\* gives status "system_time_no_fix".
C7_HostClockStatus ==
    (Ended /\ host_year > HostYearFloor /\ decoded) =>
        /\ (~SeenDollar => Returned /\ row[1].status = "system_time_no_nmea")
        /\ ((SeenDollar /\ \A i \in 1..Len(nmea_lines) : ~IsValidRmc(nmea_lines[i]))
              => Returned /\ row[1].status = "system_time_no_fix")

\* Whenever the decoder returns, a plausible host clock gives the two statuses:
\* the runs in which it does not return are those of C6.
HostClockStatusWhenReturned ==
    (Returned /\ host_year > HostYearFloor /\ decoded) =>
        /\ (~SeenDollar => row[1].status = "system_time_no_nmea")
        /\ ((SeenDollar /\ \A i \in 1..Len(nmea_lines) : ~IsValidRmc(nmea_lines[i]))
              => row[1].status = "system_time_no_fix")

\* the for loop was left by its break, at line idx
Halted == pc \in {"parse_ts", "main_write", "done"} /\ idx <= Len(nmea_lines)
RanOut == pc \in {"parse_ts", "main_write", "done"} /\ idx > Len(nmea_lines)

\* C9: decoding halts exactly at the first RMC with validity "A" after which
\* both latitude and longitude are set, and at no sentence that leaves
\* latitude or longitude absent.
C9_EarlyStop ==
    /\ Halted => /\ IsValidRmc(nmea_lines[idx])
                 /\ loc.lat # None /\ loc.lon # None
    /\ (RanOut /\ decoded) => (loc.lat = None \/ loc.lon = None)

\* ---------------------------------------- claims on the readers and main
MainEnded == pc \in {"done", "crashed"}

\* C4: whatever fails during the acquisition, on either transport, main does
\* not let it propagate: it writes one record whose status is the error reason
\* and whose positional fields are absent, and it attempts no decode.
C4_FailureBecomesRecord ==
    (MainEnded /\ fault # "none") =>
        /\ pc = "done"
        /\ ~decoded
        /\ Len(csv) = 1
        /\ err # None /\ csv[1].status = err[1]
        /\ \A f \in PositionalFields : csv[1][f] = None

\* read_nmea_lines_soft has been left, by return or by an exception
SoftExited ==
    /\ MODE = "soft"
    /\ pc \notin {"main", "soft_import", "soft_connect", "soft_open",
                  "soft_loop", "soft_finally"}

\* bb_serial_read_open succeeded during the call
BbWasOpened == pi_connected /\ fault # "open_failed"

\* C5 as claimed: on every exit path of read_nmea_lines_soft taken after
\* pigpio.pi() was constructed, the daemon not connected included, pi.stop() is
\* called, and bb_serial_read_close is called whenever the channel was opened.
C5_SoftAlwaysReleases ==
    (SoftExited /\ pi_created) =>
        /\ pi_stopped
        /\ (BbWasOpened => bb_closed)

\* C5 amended: on every exit path of read_nmea_lines_soft taken after the daemon
\* connection was established (open failure, window expiry, an exception raised
\* inside the poll loop), pi.stop() is called, and bb_serial_read_close is called
\* whenever the channel was opened, so that the channel is left open only if
\* that close call itself failed; on the daemon-not-connected path the function
\* returns without calling pi.stop(), and no channel was opened there.
C5_SoftReleasesWhenConnected ==
    (SoftExited /\ pi_created) =>
        /\ (pi_connected <=> pi_stopped)
        /\ (BbWasOpened <=> bb_closed)
        /\ (bb_open => bb_closed)
        /\ (~pi_connected => ~bb_open)

\* C5 witness: the poll loop raised, and the function was left through finally
C5_Witness ==
    /\ SoftExited /\ pc = "crashed" /\ fault = "poll_raised"
    /\ pi_stopped /\ bb_closed /\ ~bb_open

\* the non-empty lines of s that a newline terminates, decoded and stripped
FramedLines(s) ==
    LET parts == Split(s, "\n")
    IN  KeepLines(SubSeq(parts, 1, Len(parts) - 1))

\* The soft reader frames its bytes exactly: split on newline, last part kept.
SoftFraming ==
    (MODE = "soft" /\ pc = "main_check") => lines = FramedLines(SubSeq(stream, 1, pos))

\* C10: however the byte stream is split across polls, the lines a transport
\* reader returns are exactly the non-empty newline-terminated lines of the
\* bytes it was handed, in order; an unterminated fragment is never a line.
C10_Framing ==
    pc = "main_check" => lines = FramedLines(SubSeq(stream, 1, pos))

\* the reader's channel is open and the call is in its poll loop
InWindow == pc \in {"soft_loop", "hard_loop"}

\* the call is still inside read_nmea_lines_soft / read_nmea_lines_hard
InReader ==
    pc \in {"soft_import", "soft_connect", "soft_open", "soft_loop", "soft_finally",
            "hard_import", "hard_open", "hard_loop"}

\* the reader was left by an exception
ReaderRaised == pc = "crashed" /\ fault = "poll_raised"

\* the reader handed (lines, err) back to main
ReaderReturned == pc # "main" /\ ~InReader /\ ~ReaderRaised

\* the reader returned because the window elapsed
TimedOut == ReaderReturned /\ t0 + READ_WINDOW_S <= now /\ fault = "none"

\* Elapsed time is checked on each iteration: the loop is never entered again
\* once the window has elapsed, so the clock passes its end by less than one poll.
WindowBounded == InWindow => now < t0 + READ_WINDOW_S + MaxTick

\* On timeout the reader returns with no error and no exception, and what it
\* returns are the lines it had accumulated when the loop ended.
TimeoutReturnsLines ==
    /\ [](TimedOut => (err = None /\ exc # "pigpio.error"))
    /\ [][(InWindow /\ ~InWindow') => lines' = lines]_vars

\* Once the channel is open the call ends, by return or by an exception.
WindowEnds == InWindow ~> (ReaderReturned \/ ReaderRaised)

\* C11: once a reader's channel is open, the call eventually returns, however
\* much data arrives on each poll, the elapsed time being checked on every
\* iteration; on timeout it returns the accumulated lines with no error, and
\* it does not raise.
C11_WindowTermination ==
    /\ []WindowBounded
    /\ TimeoutReturnsLines
    /\ (InWindow ~> ReaderReturned)

\* ------------------------------------------------- claims on the lookup
Rows(f) == files[f].rows

Max(S) == CHOOSE x \in S : \A y \in S : y <= x
MinOf(S) == CHOOSE x \in S : \A y \in S : x <= y

\* order lists every file once, no older file before a newer one
NewestFirst ==
    /\ Len(order) = Cardinality(DOMAIN files)
    /\ {order[k] : k \in 1..Len(order)} = DOMAIN files
    /\ \A a, b \in 1..Len(order) :
          a < b => files[order[a]].mtime >= files[order[b]].mtime

\* C8 as claimed: the groups are scanned most recent first and the entries of a
\* group most recent first; the first entry in that order whose status equals
\* "fix" (compared as the code compares it) and whose lat and lon are present is
\* returned, and the no-result value is returned exactly when no entry of an
\* available group is such an entry.
C8_FirstFixNewestFirst ==
    pc = "csv_done" =>
        /\ NewestFirst
        /\ LET has == {k \in 1..Len(order) :
                          /\ order[k] \notin skipped
                          /\ \E i \in 1..Len(Rows(order[k])) : RowIsFix(Rows(order[k])[i])}
           IN  IF has = {} THEN found = <<>>
               ELSE LET f == order[MinOf(has)]
                        i == Max({j \in 1..Len(Rows(f)) : RowIsFix(Rows(f)[j])})
                    IN  found = <<FixResult(f, Rows(f)[i])>>

\* the most recent entry of file f that is taken as a fix, 0 if there is none
LastFixRow(f) ==
    LET hits == {j \in 1..Len(Rows(f)) : RowIsFix(Rows(f)[j])}
    IN  IF hits = {} THEN 0 ELSE Max(hits)

\* file f can be read and its most recent fix entry has numeric lat and lon
Yields(f) ==
    /\ f \notin skipped
    /\ LastFixRow(f) # 0
    /\ RowConverts(Rows(f)[LastFixRow(f)])

\* C8 amended: the groups are scanned most recent first and the entries of a
\* group most recent first; the first entry in that order whose status equals
\* "fix" (compared without regard to letter case) and whose lat and lon are
\* both present is returned if its lat and lon convert to numbers; if they do
\* not, the rest of its group is skipped and the scan goes on with the next
\* group; the no-result value is returned exactly when no readable group's most
\* recent such entry converts.
C8_FirstConvertingFixNewestFirst ==
    pc = "csv_done" =>
        /\ NewestFirst
        /\ LET has == {k \in 1..Len(order) : Yields(order[k])}
           IN  IF has = {} THEN found = <<>>
               ELSE LET f == order[MinOf(has)]
                    IN  found = <<FixResult(f, Rows(f)[LastFixRow(f)])>>

\* C8 witness: the newest file's last fix entry did not convert, and the fix
\* returned is the most recent one of the older file, which has two rows
C8_Witness ==
    /\ pc = "csv_done"
    /\ found # <<>>
    /\ Len(order) = 2 /\ skipped = {}
    /\ found[1].fp = order[2]
    /\ LastFixRow(order[1]) # 0
    /\ Len(Rows(order[2])) = 2 /\ LastFixRow(order[2]) = 1
====
